---------------------------- MODULE Spec2Model ----------------------------
(*
  State-machine model of src/main.js: the page script that wires the
  scroll-aware navigation bar, the mobile menu, the accordion, the iOS
  viewport-height fix and the deferred animation setup.

  CSS values and other strings the script builds at run time are sequences of
  string tokens (one token per character for built strings, one token for a
  literal keyword), so that '' is << >>, '0px' is <<"0","p","x">> and a
  template such as `-${scrollPos}px` is computed, not assumed.
*)
EXTENDS Integers, Sequences, FiniteSets, TLC

\* ------------------------------------------------------------------ bounds

\* Scroll offsets explored: 0 and Threshold-1 .. Threshold+ScrollSpan.
ScrollSpan == 2
\* At most this many 300 ms hide timers of closeMenu are pending at once.
MaxHideTimers == 2
\* The page has up to this many in-menu anchor links.
MaxLinks == 1
\* Accordion items in the document.
NumItems == 2
\* Natural content heights are k * HeightUnit for k in 0..MaxHeightUnits.
HeightUnit == 24
MaxHeightUnits == 1
\* Window inner heights are BaseInnerHeight + k * InnerHeightStep, k in 0..MaxInnerSteps.
BaseInnerHeight == 600
InnerHeightStep == 67
MaxInnerSteps == 2

\* Counter targets 0..MaxTarget, intermediate values in steps of 1 / ValueScale,
\* and the number of times the counter's top may cross the 85% line.
MaxTarget == 11
ValueScale == 4
MaxCrossings == 3

\* ------------------------------------------------------- program constants

\* updateNav's scroll threshold (scrollY > 50 / scrollY <= 50).
Threshold == 50

TransparentClasses == {"max-w-[92%]", "md:max-w-7xl", "bg-transparent"}

PillClasses ==
    {"w-[90%]", "md:w-full", "max-w-2xl", "bg-white/90", "backdrop-blur-lg",
     "shadow-lg", "border", "border-slate-200", "rounded-2xl", "py-3"}

ItemActiveClasses == {"border-blue-500", "shadow-md"}

IconActiveClasses == {"rotate-45", "text-blue-600"}

RequiredElements == {"navbar", "main-header", "menu-btn", "mobile-menu"}

\* ------------------------------------------------------------ input domains

ScrollOffsets == {0} \cup ((Threshold - 1) .. (Threshold + ScrollSpan))

ScrollHeights == {k * HeightUnit : k \in 0..MaxHeightUnits}

InnerHeights == {BaseInnerHeight + k * InnerHeightStep : k \in 0..MaxInnerSteps}

Items == 1..NumItems

\* ----------------------------------------------------------------- strings

Digit(d) ==
    CASE d = 0 -> "0" [] d = 1 -> "1" [] d = 2 -> "2" [] d = 3 -> "3"
      [] d = 4 -> "4" [] d = 5 -> "5" [] d = 6 -> "6" [] d = 7 -> "7"
      [] d = 8 -> "8" [] d = 9 -> "9"

RECURSIVE NatToStr(_)
\* String(n) for a natural number n, one token per decimal digit.
NatToStr(n) == IF n < 10 THEN <<Digit(n)>> ELSE NatToStr(n \div 10) \o <<Digit(n % 10)>>

\* String(n) of an integer, as a template literal or + 'px' converts it.
IntToStr(n) == IF n < 0 THEN <<"-">> \o NatToStr(-n) ELSE NatToStr(n)

PxSuffix == <<"p", "x">>

Empty == << >>

\* A literal keyword value ('fixed', 'flex', '100%', ...).
Lit(s) == <<s>>

\* Number-to-string of h * 0.01 for a natural h: the integer part, then the
\* hundredths without trailing zeros (667 * 0.01 -> "6.67", 800 * 0.01 -> "8").
\* Binary floating-point rounding of the product is not modelled.
HundredthsToStr(h) ==
    LET ip == h \div 100
        fr == h % 100
    IN  IF fr = 0 THEN NatToStr(ip)
        ELSE IF fr % 10 = 0 THEN NatToStr(ip) \o <<".", Digit(fr \div 10)>>
        ELSE NatToStr(ip) \o <<".", Digit(fr \div 10), Digit(fr % 10)>>

\* ---------------------------------------------------------------- variables

VARIABLES
    \* the document the script runs against
    elems,          \* which of the required elements exist
    closeBtn,       \* mobileMenu.querySelector('button'): "none", "menu-btn" or "other"
    nLinks,         \* number of a[href^="#"] inside the mobile menu
    hasContent,     \* accordion items holding an .accordion-content
    hasIcon,        \* accordion items holding an .icon-toggle
    \* script-wide
    initialized,    \* initAll has run
    threw,          \* initAll ended by an uncaught exception
    listeners,      \* registered event listeners
    globals,        \* properties published on window
    animTimer,      \* the 100 ms timer of initAll: "unset", "pending", "fired"
    accTimer,       \* the 300 ms timer of initAccordion
    hideTimers,     \* pending 300 ms timers of closeMenu
    pendingEvents,  \* events the browser has queued: "scroll", "resize", "orientationchange"
    \* animation library
    gsapDefined, stDefined, pluginRegistered, animRuns, libsAtFire,
    \* counter animation (one .counter element)
    dataTarget,     \* its data-target attribute, or NullAttr when it has none
    counterTarget,  \* `target`
    objValue,       \* obj.value, in units of 1 / ValueScale
    counterText,    \* counter.textContent
    tween,          \* the tween of gsap.to: "none", "paused", "playing", "done"
    triggerLive,    \* its ScrollTrigger has not been killed
    pastLine,       \* the element's top is above the 85% line of the viewport
    crossings,      \* times the element's top has crossed that line
    counterEnters,  \* times it entered (or was found past) the line since the tween exists
    counterStarts,  \* times the ScrollTrigger has played the tween
    ticked,         \* onUpdate has run
    prevShown,      \* the number textContent wrote before the last onUpdate
    \* navigation
    navClasses, isScrolled, ticking, rafPending, pageYOffset,
    \* mobile menu
    isOpen, scrollPos, menuDisplay, menuClasses, headerStyle, bodyStyle,
    \* accordion
    height, itemClasses, iconClasses, iconAttr,
    \* viewport fix
    innerHeight, vh,
    \* observation: the last handler that ran and what it was given
    lastOp,         \* the handler
    lastItem,       \* toggleAccordion's argument
    lastHeight,     \* the scrollHeight it measured
    lastOpened,     \* it took the expanding branch
    switchedFrom,   \* another item that was expanded when it was called, or 0
    reToggled,      \* it was called on the item the previous call expanded
    preOpenBody,    \* the body's inline style when openMenu was called
    closedFromOpen, \* closeMenu was called while isOpen was true
    wasOpen,        \* isOpen when the last menu handler was called
    openedBy,       \* the handler whose call last ran openMenu
    closeEffect,    \* what the last closeMenu call changed: "scroll", "body", "opacity"
    navLastHigh,    \* the last run of updateNav read an offset > 50
    navSameSide,    \* ... on the same side of 50 as the run before it
    navSwapped,     \* ... and took a branch, or changed a class or isScrolled
    navCoalesced    \* the last scroll event found a callback already requested

markupVars == <<elems, closeBtn, nLinks, hasContent, hasIcon, dataTarget>>
scriptVars == <<initialized, threw, listeners, globals>>
counterVars ==
    <<counterTarget, objValue, counterText, tween, triggerLive, pastLine, crossings,
      counterEnters, counterStarts, ticked, prevShown>>
animVars ==
    <<animTimer, gsapDefined, stDefined, pluginRegistered, animRuns, libsAtFire, counterVars>>
navVars == <<navClasses, isScrolled, ticking, rafPending>>
menuVars == <<isOpen, scrollPos, menuDisplay, menuClasses, headerStyle, bodyStyle, hideTimers>>
accVars == <<accTimer, height, itemClasses, iconClasses, iconAttr>>
vpVars == <<innerHeight, vh>>
accObs == <<lastItem, lastHeight, lastOpened, switchedFrom, reToggled>>
menuObs == <<preOpenBody, closedFromOpen, wasOpen, openedBy, closeEffect>>
navObs == <<navLastHigh, navSameSide, navSwapped, navCoalesced>>
obsVars == <<accObs, menuObs>>

vars ==
    <<markupVars, scriptVars, animVars, navVars, pageYOffset, pendingEvents,
      menuVars, accVars, vpVars, lastOp, obsVars, navObs>>

\* ------------------------------------------------------------------- markup

\* The body's inline style before the script touches it: none, or a page that
\* styles position and width inline.
NoBodyStyle ==
    [position |-> Empty, top |-> Empty, left |-> Empty, right |-> Empty, width |-> Empty]

InlineBodyStyle ==
    [position |-> Lit("relative"), top |-> Empty, left |-> Empty, right |-> Empty,
     width |-> Lit("100vw")]

BodyMarkups == {NoBodyStyle, InlineBodyStyle}

\* The navbar's class list as the page ships it: the resting (transparent) set
\* that updateNav removes on entering pill mode and puts back on leaving it.
NavbarMarkup == TransparentClasses

\* The counter's text as the page ships it.
CounterMarkup == Lit("0")

\* getAttribute's result for an element without the attribute.
NullAttr == Lit("null")

\* The data-target values of the pages considered: none, empty, or a number.
TargetAttrs == {NullAttr, Empty} \cup {NatToStr(n) : n \in 0..MaxTarget}

\* The menu panel as the page ships it: faded out and not clickable.
MenuMarkupClasses == {"opacity-0", "pointer-events-none"}

NoHeaderStyle == [opacity |-> Empty, pointerEvents |-> Empty]

\* --------------------------------------------------------------------- Init

\* The state when the script is about to run initAll, with the page's markup
\* and the environment drawn from the given sets.
InitWith(ElemSets, CloseBtns, LinkCounts, Bodies, Offsets, Libs, ContentSets, IconSets, Heights, Targets, Lines) ==
    /\ elems \in ElemSets
    /\ closeBtn \in CloseBtns
    /\ nLinks \in LinkCounts
    /\ hasContent \in ContentSets
    /\ hasIcon \in IconSets
    /\ initialized = FALSE
    /\ threw = FALSE
    /\ listeners = {}
    /\ globals = {}
    /\ animTimer = "unset"
    /\ accTimer = "unset"
    /\ hideTimers = 0
    /\ pendingEvents = {}
    /\ gsapDefined \in Libs
    /\ stDefined \in Libs
    /\ pluginRegistered = FALSE
    /\ animRuns = 0
    /\ libsAtFire = FALSE
    /\ dataTarget \in Targets
    /\ counterTarget = 0
    /\ objValue = 0
    /\ counterText = CounterMarkup
    /\ tween = "none"
    /\ triggerLive = FALSE
    /\ pastLine \in Lines
    /\ crossings = 0
    /\ counterEnters = 0
    /\ counterStarts = 0
    /\ ticked = FALSE
    /\ prevShown = 0
    /\ navClasses = NavbarMarkup
    /\ isScrolled = FALSE
    /\ ticking = FALSE
    /\ rafPending = 0
    /\ pageYOffset \in Offsets
    /\ isOpen = FALSE
    /\ scrollPos = 0
    /\ menuDisplay = Empty
    /\ menuClasses = MenuMarkupClasses
    /\ headerStyle = NoHeaderStyle
    /\ bodyStyle \in Bodies
    /\ height = [i \in Items |-> Empty]
    /\ itemClasses = [i \in Items |-> {}]
    /\ iconClasses = [i \in Items |-> {}]
    /\ iconAttr = [i \in Items |-> "solar:add-linear"]
    /\ innerHeight \in Heights
    /\ vh = Empty
    /\ lastOp = "none"
    /\ lastItem = 0
    /\ lastHeight = 0
    /\ lastOpened = FALSE
    /\ switchedFrom = 0
    /\ reToggled = FALSE
    /\ preOpenBody = NoBodyStyle
    /\ closedFromOpen = FALSE
    /\ wasOpen = FALSE
    /\ openedBy = "none"
    /\ closeEffect = {}
    /\ navLastHigh = FALSE
    /\ navSameSide = FALSE
    /\ navSwapped = FALSE
    /\ navCoalesced = FALSE

Init ==
    InitWith(SUBSET RequiredElements, {"none", "menu-btn", "other"}, 0..MaxLinks,
             BodyMarkups, ScrollOffsets, BOOLEAN, SUBSET Items, SUBSET Items,
             InnerHeights, TargetAttrs, BOOLEAN)

\* --------------------------------------------------------------- navigation

\* window.pageYOffset || document.documentElement.scrollTop
ScrollYOf(pageOffset, docScrollTop) == IF pageOffset # 0 THEN pageOffset ELSE docScrollTop

\* Both properties read the same viewport offset.
ReadScrollY == ScrollYOf(pageYOffset, pageYOffset)

\* The guard of initNavigation: both elements were found.
NavElementsPresent(E) == "navbar" \in E /\ "main-header" \in E

\* Variant of EntersPill: the threshold itself counts as scrolled (>= for >).
EntersPillAtThreshold(y, scrolled) == y >= Threshold /\ ~scrolled

\* Variant of EntersPill: the !isScrolled test is left out.
EntersPillUnguarded(y, scrolled) == y > Threshold

\* updateNav's first branch: scrollY > 50 && !isScrolled
EntersPill(y, scrolled) == y > Threshold /\ ~scrolled

\* Variant of LeavesPill: < for <=.
LeavesPillBelowThreshold(y, scrolled) == y < Threshold /\ scrolled

\* updateNav's second branch: scrollY <= 50 && isScrolled
LeavesPill(y, scrolled) == y <= Threshold /\ scrolled

\* isScrolled after updateNav read offset y.
NavScrolledAfter(y, scrolled) ==
    IF EntersPill(y, scrolled) THEN TRUE
    ELSE IF LeavesPill(y, scrolled) THEN FALSE
    ELSE scrolled

\* navbar.classList after updateNav read offset y.
NavClassesAfter(y, scrolled, classes) ==
    IF EntersPill(y, scrolled) THEN (classes \ TransparentClasses) \cup PillClasses
    ELSE IF LeavesPill(y, scrolled) THEN (classes \cup TransparentClasses) \ PillClasses
    ELSE classes

\* --------------------------------------------------------------- viewport fix

\* Variant of VhValue: the product is truncated to whole pixels.
VhValueTruncated(h) == NatToStr(h \div 100) \o PxSuffix

\* setVH: (window.innerHeight * 0.01) + 'px'
VhValue(h) == HundredthsToStr(h) \o PxSuffix

\* ---------------------------------------------------------------- mobile menu

\* Variant of MenuElementsPresent: the guard forgets menuBtn.
MenuElementsPresentNoBtn(E) == "main-header" \in E /\ "mobile-menu" \in E

\* The guard of initMobileMenu: all three elements were found.
MenuElementsPresent(E) == "menu-btn" \in E /\ "main-header" \in E /\ "mobile-menu" \in E

\* Listeners initMobileMenu registers on what is inside the panel.
PanelListeners(links, firstButton) ==
    (IF links > 0 THEN {"menu-link:click"} ELSE {})
    \cup (IF firstButton = "other" THEN {"close-btn:click"} ELSE {})

\* -------------------------------------------------------------------- initAll

\* initAll, run once when the DOM is ready: the timer for the animation
\* library, then initNavigation, initMobileMenu, initAccordion and
\* initViewportFix in this order. A dereference of an element that was not
\* found throws, and the exception ends initAll where it is.
InitAll ==
    /\ ~initialized
    /\ LET y == ReadScrollY
           navRuns == NavElementsPresent(elems)
           navThrows == navRuns /\ "navbar" \notin elems /\ EntersPill(y, FALSE)
           menuRuns == ~navThrows /\ MenuElementsPresent(elems)
           btnThrows == menuRuns /\ "menu-btn" \notin elems
           panelThrows == menuRuns /\ ~btnThrows /\ "mobile-menu" \notin elems
           restRuns == ~navThrows /\ ~btnThrows /\ ~panelThrows
       IN  /\ initialized' = TRUE
           /\ threw' = ~restRuns
           /\ animTimer' = "pending"
           /\ listeners' =
                (IF navRuns THEN {"scroll"} ELSE {})
                \cup (IF menuRuns /\ ~btnThrows THEN {"menu-btn:click"} ELSE {})
                \cup (IF menuRuns /\ restRuns THEN PanelListeners(nLinks, closeBtn) ELSE {})
                \cup (IF restRuns THEN {"resize", "orientationchange"} ELSE {})
           /\ globals' =
                (IF menuRuns /\ ~btnThrows THEN {"toggleMenu"} ELSE {})
                \cup (IF restRuns THEN {"toggleAccordion"} ELSE {})
           /\ isScrolled' = IF navRuns /\ ~navThrows THEN NavScrolledAfter(y, FALSE) ELSE isScrolled
           /\ navClasses' =
                IF navRuns /\ ~navThrows THEN NavClassesAfter(y, FALSE, navClasses) ELSE navClasses
           /\ ticking' = FALSE
           /\ navLastHigh' = (navRuns /\ ~navThrows /\ y > Threshold)
           /\ navSameSide' = FALSE
           /\ navSwapped' = (navRuns /\ ~navThrows /\ (EntersPill(y, FALSE) \/ LeavesPill(y, FALSE)))
           /\ accTimer' = IF restRuns THEN "pending" ELSE accTimer
           /\ vh' = IF restRuns THEN VhValue(innerHeight) ELSE vh
    /\ lastOp' = "initAll"
    \* isOpen = false and scrollPos = 0 are the closure's initial values.
    /\ UNCHANGED <<markupVars, gsapDefined, stDefined, pluginRegistered, animRuns, libsAtFire,
                   counterVars, rafPending, pageYOffset, pendingEvents, menuVars,
                   height, itemClasses, iconClasses, iconAttr, innerHeight, obsVars,
                   navCoalesced>>

\* ---------------------------------------------------- scrolling and frames

\* The viewport scrolls to another offset (the user, or the browser's own
\* layout); the browser queues a scroll event.
Scroll(y) ==
    /\ y # pageYOffset
    /\ pageYOffset' = y
    /\ pendingEvents' = pendingEvents \cup {"scroll"}
    /\ lastOp' = "scroll"
    /\ UNCHANGED <<markupVars, scriptVars, animVars, navVars, menuVars, accVars, vpVars, obsVars,
                   navObs>>

\* Variant of NeedsFrame: requestTick without the ticking guard.
NeedsFrameAlways(tick) == TRUE

\* requestTick's guard: if (!ticking)
NeedsFrame(tick) == ~tick

\* The scroll event is dispatched: requestTick, when it is registered.
ScrollEvent ==
    /\ "scroll" \in pendingEvents
    /\ pendingEvents' = pendingEvents \ {"scroll"}
    /\ IF "scroll" \in listeners /\ NeedsFrame(ticking)
         THEN rafPending' = rafPending + 1 /\ ticking' = TRUE
         ELSE UNCHANGED <<rafPending, ticking>>
    /\ navCoalesced' = ("scroll" \in listeners /\ ticking)
    /\ lastOp' = "scrollEvent"
    /\ UNCHANGED <<markupVars, scriptVars, animVars, navClasses, isScrolled, pageYOffset,
                   menuVars, accVars, vpVars, obsVars, navLastHigh, navSameSide, navSwapped>>

\* An animation frame runs a pending updateNav callback.
AnimationFrame ==
    /\ rafPending > 0
    /\ rafPending' = rafPending - 1
    /\ isScrolled' = NavScrolledAfter(ReadScrollY, isScrolled)
    /\ navClasses' = NavClassesAfter(ReadScrollY, isScrolled, navClasses)
    /\ ticking' = FALSE
    /\ navLastHigh' = (ReadScrollY > Threshold)
    /\ navSameSide' = ((ReadScrollY > Threshold) = navLastHigh)
    /\ navSwapped' =
         \/ EntersPill(ReadScrollY, isScrolled) \/ LeavesPill(ReadScrollY, isScrolled)
         \/ navClasses' # navClasses \/ isScrolled' # isScrolled
    /\ lastOp' = "updateNav"
    /\ UNCHANGED <<markupVars, scriptVars, animVars, pageYOffset, pendingEvents,
                   menuVars, accVars, vpVars, obsVars, navCoalesced>>

\* ---------------------------------------------------- mobile menu handlers

\* Variant of LockedTop: the offset without the minus sign.
LockedTopUnsigned(pos) == IntToStr(pos) \o PxSuffix

\* The template literal `-${scrollPos}px`.
LockedTop(pos) == <<"-">> \o IntToStr(pos) \o PxSuffix

\* document.body.style after openMenu's five assignments.
LockedBody(body, pos) ==
    [body EXCEPT !.position = Lit("fixed"), !.top = LockedTop(pos), !.left = Lit("0"),
                 !.right = Lit("0"), !.width = Lit("100%")]

\* Variant of UnlockedBody: the position assignment is left out.
UnlockedBodyKeepsPosition(body) ==
    [body EXCEPT !.top = Empty, !.left = Empty, !.right = Empty, !.width = Empty]

\* document.body.style after closeMenu's five assignments.
UnlockedBody(body) ==
    [body EXCEPT !.position = Empty, !.top = Empty, !.left = Empty, !.right = Empty,
                 !.width = Empty]

\* mainHeader.style after openMenu / closeMenu.
HiddenHeader == [opacity |-> Lit("0"), pointerEvents |-> Lit("none")]

ShownHeader == [opacity |-> Lit("1"), pointerEvents |-> Empty]

\* openMenu, called by handler `op`.
OpenMenu(op) ==
    /\ isOpen' = TRUE
    /\ scrollPos' = pageYOffset
    /\ menuDisplay' = Lit("flex")
    /\ menuClasses' = (menuClasses \ {"opacity-0", "pointer-events-none"}) \cup {"mobile-menu-open"}
    /\ headerStyle' = HiddenHeader
    /\ bodyStyle' = LockedBody(bodyStyle, pageYOffset)
    /\ preOpenBody' = bodyStyle
    /\ closedFromOpen' = FALSE
    /\ wasOpen' = isOpen
    /\ openedBy' = op
    /\ closeEffect' = {}
    /\ lastOp' = op
    /\ UNCHANGED <<hideTimers, pageYOffset, pendingEvents>>

\* closeMenu, called by handler `op`. window.scrollTo(0, scrollPos) moves the
\* viewport, and the browser queues a scroll event when the offset changed.
CloseMenu(op) ==
    /\ hideTimers < MaxHideTimers
    /\ isOpen' = FALSE
    /\ menuClasses' = (menuClasses \cup {"opacity-0", "pointer-events-none"}) \ {"mobile-menu-open"}
    /\ hideTimers' = hideTimers + 1
    /\ headerStyle' = ShownHeader
    /\ bodyStyle' = UnlockedBody(bodyStyle)
    /\ pageYOffset' = scrollPos
    /\ pendingEvents' = IF scrollPos # pageYOffset THEN pendingEvents \cup {"scroll"} ELSE pendingEvents
    /\ closedFromOpen' = isOpen
    /\ wasOpen' = isOpen
    /\ closeEffect' = {e \in {"scroll", "body", "opacity"} :
                           \/ e = "scroll" /\ pageYOffset' # pageYOffset
                           \/ e = "body" /\ bodyStyle' # bodyStyle
                           \/ e = "opacity" /\ headerStyle'.opacity # headerStyle.opacity}
    /\ lastOp' = op
    /\ UNCHANGED <<scrollPos, menuDisplay, preOpenBody, openedBy>>

\* toggle
Toggle(op) == IF isOpen THEN CloseMenu(op) ELSE OpenMenu(op)

menuFrame == <<markupVars, scriptVars, animVars, navVars, accVars, vpVars, accObs, navObs>>

\* A click on #menu-btn.
ButtonClick ==
    /\ "menu-btn:click" \in listeners
    /\ Toggle("buttonClick")
    /\ UNCHANGED menuFrame

\* window.toggleMenu(), from inline markup.
ToggleMenuCall ==
    /\ "toggleMenu" \in globals
    /\ Toggle("toggleMenu")
    /\ UNCHANGED menuFrame

\* A click on (or keyboard activation of) an in-menu anchor link; the panel
\* takes no input once its display is 'none'.
LinkClick(l) ==
    /\ "menu-link:click" \in listeners
    /\ l \in 1..nLinks
    /\ menuDisplay # Lit("none")
    /\ CloseMenu("linkClick")
    /\ UNCHANGED menuFrame

\* A click on the close button inside the panel.
CloseBtnClick ==
    /\ "close-btn:click" \in listeners
    /\ menuDisplay # Lit("none")
    /\ CloseMenu("closeBtnClick")
    /\ UNCHANGED menuFrame

\* A 300 ms timer of closeMenu fires.
HideTimerFire ==
    /\ hideTimers > 0
    /\ hideTimers' = hideTimers - 1
    /\ menuDisplay' = Lit("none")
    /\ lastOp' = "hideTimer"
    /\ UNCHANGED <<markupVars, scriptVars, animVars, navVars, pageYOffset, pendingEvents,
                   isOpen, scrollPos, menuClasses, headerStyle, bodyStyle,
                   accVars, vpVars, obsVars, navObs>>

\* ------------------------------------------------------------------ accordion

\* The literal '0px'.
ZeroPx == <<"0", "p", "x">>

\* content.scrollHeight + 'px'
HeightPx(sh) == IntToStr(sh) \o PxSuffix

\* The test of "Toggle current": content.style.height === '0px' || !content.style.height
IsCollapsed(h) == h = ZeroPx \/ h = Empty

\* Variant of HeightsAfter: the "close others" loop over the contents is left out.
HeightsAfterKeepOthers(e, sh) ==
    [i \in Items |->
        IF i = e THEN (IF IsCollapsed(height[e]) THEN HeightPx(sh) ELSE ZeroPx)
        ELSE height[i]]

\* The content heights after toggleAccordion(e) with e's content scrollHeight sh.
HeightsAfter(e, sh) ==
    [i \in Items |->
        IF i = e THEN (IF IsCollapsed(height[e]) THEN HeightPx(sh) ELSE ZeroPx)
        ELSE IF i \in hasContent THEN ZeroPx
        ELSE height[i]]

\* The icons' class lists after toggleAccordion(e).
IconClassesAfter(e) ==
    [i \in Items |->
        IF i \notin hasIcon THEN iconClasses[i]
        ELSE IF i # e THEN iconClasses[i] \ IconActiveClasses
        ELSE IF IsCollapsed(height[e]) THEN iconClasses[i] \cup IconActiveClasses
        ELSE iconClasses[i] \ IconActiveClasses]

\* The icons' icon attribute after toggleAccordion(e): reset on the others.
IconAttrAfter(e) ==
    [i \in Items |-> IF i \in hasIcon /\ i # e THEN "solar:add-linear" ELSE iconAttr[i]]

\* Variant of ItemClassesAfter: the "close others" loop over the items is left out.
ItemClassesAfterKeepOthers(e) ==
    [i \in Items |->
        IF i # e THEN itemClasses[i]
        ELSE IF IsCollapsed(height[e]) THEN itemClasses[i] \cup ItemActiveClasses
        ELSE itemClasses[i] \ ItemActiveClasses]

\* The items' class lists after toggleAccordion(e).
ItemClassesAfter(e) ==
    [i \in Items |->
        IF i # e THEN itemClasses[i] \ ItemActiveClasses
        ELSE IF IsCollapsed(height[e]) THEN itemClasses[i] \cup ItemActiveClasses
        ELSE itemClasses[i] \ ItemActiveClasses]

\* A content panel's inline height is a non-zero length.
Expanded(h) == h # Empty /\ h # ZeroPx

\* window.toggleAccordion(element) on item e, whose content measures sh;
\* without an .accordion-content it returns at once.
ToggleAccordionBody(e, sh) ==
    /\ IF e \in hasContent
         THEN /\ height' = HeightsAfter(e, sh)
              /\ iconClasses' = IconClassesAfter(e)
              /\ iconAttr' = IconAttrAfter(e)
              /\ itemClasses' = ItemClassesAfter(e)
              /\ lastOpened' = IsCollapsed(height[e])
         ELSE /\ UNCHANGED <<height, iconClasses, iconAttr, itemClasses>>
              /\ lastOpened' = FALSE
    /\ lastItem' = e
    /\ lastHeight' = sh
    /\ switchedFrom' =
         IF \E a \in Items \ {e} : Expanded(height[a])
           THEN CHOOSE a \in Items \ {e} : Expanded(height[a])
           ELSE 0
    /\ reToggled' = (lastOpened /\ lastItem = e)

accFrame ==
    <<markupVars, scriptVars, animVars, navVars, pageYOffset, pendingEvents, menuVars, vpVars,
      menuObs, navObs>>

\* A call of window.toggleAccordion from the page (an inline onclick).
ToggleAccordion(e, sh) ==
    /\ "toggleAccordion" \in globals
    /\ ToggleAccordionBody(e, sh)
    /\ lastOp' = "toggleAccordion"
    /\ UNCHANGED <<accTimer, accFrame>>

\* document.querySelector('.accordion-item'): the first item in document order.
FirstItem == 1

\* The 300 ms timer of initAccordion fires.
AccTimerFire(sh) ==
    /\ accTimer = "pending"
    /\ accTimer' = "fired"
    /\ IF "toggleAccordion" \in globals
         THEN ToggleAccordionBody(FirstItem, sh)
         ELSE UNCHANGED <<height, iconClasses, iconAttr, itemClasses, accObs>>
    /\ lastOp' = "accTimer"
    /\ UNCHANGED accFrame

\* ---------------------------------------------------------- animation library

\* The gsap script finishes loading.
LoadGsap ==
    /\ ~gsapDefined
    /\ gsapDefined' = TRUE
    /\ lastOp' = "loadGsap"
    /\ UNCHANGED <<markupVars, scriptVars, animTimer, stDefined, pluginRegistered, animRuns,
                   libsAtFire, counterVars, navVars, pageYOffset, pendingEvents, menuVars, accVars, vpVars,
                   obsVars, navObs>>

\* The ScrollTrigger script finishes loading.
LoadScrollTrigger ==
    /\ ~stDefined
    /\ stDefined' = TRUE
    /\ lastOp' = "loadScrollTrigger"
    /\ UNCHANGED <<markupVars, scriptVars, animTimer, gsapDefined, pluginRegistered, animRuns,
                   libsAtFire, counterVars, navVars, pageYOffset, pendingEvents, menuVars, accVars, vpVars,
                   obsVars, navObs>>

\* Variant of LibrariesReady: || for &&.
LibrariesReadyEither(g, st) == g \/ st

\* typeof gsap !== 'undefined' && typeof ScrollTrigger !== 'undefined'
LibrariesReady(g, st) == g /\ st

\* ---------------------------------------------------------- counter animation

\* counter.getAttribute('data-target') || '0'
TargetString(attr) == IF attr = NullAttr \/ attr = Empty THEN Lit("0") ELSE attr

IsDigit(c) == \E d \in 0..9 : Digit(d) = c

RECURSIVE ParseDigits(_, _)
\* parseInt's scan: digits are accumulated left to right up to the first
\* character that is not one.
ParseDigits(str, acc) ==
    IF str = << >> \/ ~IsDigit(Head(str)) THEN acc
    ELSE ParseDigits(Tail(str), 10 * acc + (CHOOSE d \in 0..9 : Digit(d) = Head(str)))

\* parseInt(str, 10) of a string that starts with a digit.
ParseInt(str) == ParseDigits(str, 0)

\* Variant of RoundValue: Math.floor for Math.round.
FloorValue(v) == v \div ValueScale

\* Math.round(obj.value), obj.value = v / ValueScale >= 0: halves round up.
RoundValue(v) == (2 * v + ValueScale) \div (2 * ValueScale)

\* scrollTrigger: { once: true }
TriggerOnce == TRUE

\* The 100 ms timer of initAll fires. With both libraries present
\* initAnimations runs: gsap.to creates the counter's tween from obj.value = 0
\* to target, held by its ScrollTrigger, which plays it at once (and with
\* once: true is then killed) when the element is already past the line.
AnimTimerFire ==
    /\ animTimer = "pending"
    /\ animTimer' = "fired"
    /\ libsAtFire' = (gsapDefined /\ stDefined)
    /\ pluginRegistered' = LibrariesReady(gsapDefined, stDefined)
    /\ animRuns' = IF LibrariesReady(gsapDefined, stDefined) THEN animRuns + 1 ELSE animRuns
    /\ IF LibrariesReady(gsapDefined, stDefined)
         THEN /\ counterTarget' = ParseInt(TargetString(dataTarget))
              /\ objValue' = 0
              /\ tween' = IF pastLine THEN "playing" ELSE "paused"
              /\ triggerLive' = IF pastLine THEN ~TriggerOnce ELSE TRUE
              /\ counterEnters' = IF pastLine THEN 1 ELSE 0
              /\ counterStarts' = IF pastLine THEN 1 ELSE 0
              /\ UNCHANGED <<counterText, pastLine, crossings, ticked, prevShown>>
         ELSE UNCHANGED counterVars
    /\ lastOp' = "animTimer"
    /\ UNCHANGED <<markupVars, scriptVars, gsapDefined, stDefined, navVars, pageYOffset,
                   pendingEvents, menuVars, accVars, vpVars, obsVars, navObs>>

counterFrame ==
    <<markupVars, scriptVars, animTimer, gsapDefined, stDefined, pluginRegistered, animRuns,
      libsAtFire, navVars, pageYOffset, pendingEvents, menuVars, accVars, vpVars, obsVars,
      navObs>>

\* Scrolling moves the counter's top across the 85% line of the viewport.
\* Entering with a live ScrollTrigger plays the tween (a tween already playing
\* or done is not rewound), and with once: true the trigger is then killed.
CrossLine ==
    /\ crossings < MaxCrossings
    /\ crossings' = crossings + 1
    /\ pastLine' = ~pastLine
    /\ IF ~pastLine /\ tween # "none"
         THEN /\ counterEnters' = counterEnters + 1
              /\ counterStarts' = IF triggerLive THEN counterStarts + 1 ELSE counterStarts
              /\ tween' = IF triggerLive /\ tween = "paused" THEN "playing" ELSE tween
              /\ triggerLive' = (triggerLive /\ ~TriggerOnce)
         ELSE UNCHANGED <<counterEnters, counterStarts, tween, triggerLive>>
    /\ lastOp' = "crossLine"
    /\ UNCHANGED <<counterTarget, objValue, counterText, ticked, prevShown>>
    /\ UNCHANGED counterFrame

\* A frame of the playing tween: the library sets obj.value to v, not below
\* the value before and not above the target, and calls onUpdate; the tween
\* completes on the frame that delivers the target.
TweenTick(v) ==
    /\ tween = "playing"
    /\ v \in objValue .. (ValueScale * counterTarget)
    /\ objValue' = v
    /\ counterText' = NatToStr(RoundValue(v))
    /\ tween' = IF v = ValueScale * counterTarget THEN "done" ELSE "playing"
    /\ ticked' = TRUE
    /\ prevShown' = ParseInt(counterText)
    /\ lastOp' = "tweenTick"
    /\ UNCHANGED <<counterTarget, triggerLive, pastLine, crossings, counterEnters, counterStarts>>
    /\ UNCHANGED counterFrame

\* ------------------------------------------------------------ viewport events

\* The window is resized; the browser queues a resize event.
Resize(h) ==
    /\ h # innerHeight
    /\ innerHeight' = h
    /\ pendingEvents' = pendingEvents \cup {"resize"}
    /\ lastOp' = "resized"
    /\ UNCHANGED <<markupVars, scriptVars, animVars, navVars, pageYOffset, menuVars, accVars,
                   vh, obsVars, navObs>>

\* The device is rotated; the browser queues an orientationchange event, and
\* the inner height is the new one at once or only with a later resize.
Rotate(h) ==
    /\ innerHeight' = h
    /\ pendingEvents' = pendingEvents \cup {"orientationchange"}
    /\ lastOp' = "rotated"
    /\ UNCHANGED <<markupVars, scriptVars, animVars, navVars, pageYOffset, menuVars, accVars,
                   vh, obsVars, navObs>>

\* A queued resize or orientationchange event is dispatched: setVH, when registered.
ViewportEvent(ev) ==
    /\ ev \in pendingEvents
    /\ pendingEvents' = pendingEvents \ {ev}
    /\ vh' = IF ev \in listeners THEN VhValue(innerHeight) ELSE vh
    /\ lastOp' = ev
    /\ UNCHANGED <<markupVars, scriptVars, animVars, navVars, pageYOffset, menuVars, accVars,
                   innerHeight, obsVars, navObs>>

\* ------------------------------------------------------------ specifications

\* Navigation: any page, any load offset; scrolling, scroll events, frames.
InitNav ==
    InitWith(SUBSET RequiredElements, {"none"}, {0}, {NoBodyStyle}, ScrollOffsets, {FALSE},
             {Items}, {Items}, {BaseInnerHeight},
             {NatToStr(MaxTarget)}, {FALSE})

NextNav ==
    \/ InitAll
    \/ \E y \in ScrollOffsets : Scroll(y)
    \/ ScrollEvent
    \/ AnimationFrame

SpecNav == InitNav /\ [][NextNav]_vars

\* The same with the browser's scheduling: the DOM becomes ready, a queued
\* scroll event is dispatched and a requested animation frame is run.
SpecNavFair ==
    /\ InitNav
    /\ [][NextNav]_vars
    /\ WF_vars(InitAll)
    /\ WF_vars(ScrollEvent)
    /\ WF_vars(AnimationFrame)

\* Mobile menu: any page and body style; scrolling and every menu control.
InitMenu ==
    InitWith(SUBSET RequiredElements, {"none", "menu-btn", "other"}, 0..MaxLinks, BodyMarkups,
             ScrollOffsets, {FALSE}, {Items}, {Items}, {BaseInnerHeight},
             {NatToStr(MaxTarget)}, {FALSE})

NextMenu ==
    \/ InitAll
    \/ \E y \in ScrollOffsets : Scroll(y)
    \/ ButtonClick
    \/ ToggleMenuCall
    \/ \E l \in 1..MaxLinks : LinkClick(l)
    \/ CloseBtnClick
    \/ HideTimerFire

SpecMenu == InitMenu /\ [][NextMenu]_vars

\* Accordion: any item structure; page calls and the auto-open timer.
InitAccordion ==
    InitWith({RequiredElements}, {"none"}, {0}, {NoBodyStyle}, {0}, {FALSE},
             SUBSET Items, SUBSET Items, {BaseInnerHeight},
             {NatToStr(MaxTarget)}, {FALSE})

NextAccordion ==
    \/ InitAll
    \/ \E e \in Items, sh \in ScrollHeights : ToggleAccordion(e, sh)
    \/ \E sh \in ScrollHeights : AccTimerFire(sh)

SpecAccordion == InitAccordion /\ [][NextAccordion]_vars

\* Viewport fix: any page and window height; resizes and rotations.
InitViewport ==
    InitWith(SUBSET RequiredElements, {"none"}, {0}, {NoBodyStyle}, {0}, {FALSE},
             {Items}, {Items}, InnerHeights,
             {NatToStr(MaxTarget)}, {FALSE})

NextViewport ==
    \/ InitAll
    \/ \E h \in InnerHeights : Resize(h)
    \/ \E h \in InnerHeights : Rotate(h)
    \/ \E ev \in {"resize", "orientationchange"} : ViewportEvent(ev)

SpecViewport == InitViewport /\ [][NextViewport]_vars

\* Page load: any subset of the required elements, the libraries loaded or
\* not and loading at any time, and the events of the features that need
\* elements (navigation and mobile menu).
\* The counter animation on a complete page.
InitCounter ==
    InitWith({RequiredElements}, {"none"}, {0}, {NoBodyStyle}, {0}, BOOLEAN,
             {Items}, {Items}, {BaseInnerHeight}, TargetAttrs, BOOLEAN)

NextCounter ==
    \/ InitAll
    \/ LoadGsap
    \/ LoadScrollTrigger
    \/ AnimTimerFire
    \/ CrossLine
    \/ \E v \in 0..(ValueScale * MaxTarget) : TweenTick(v)

SpecCounter == InitCounter /\ [][NextCounter]_vars

InitPage ==
    InitWith(SUBSET RequiredElements, {"none", "other"}, {MaxLinks}, {NoBodyStyle},
             {0, Threshold + 1}, BOOLEAN, {Items}, {Items}, {BaseInnerHeight},
             {NatToStr(MaxTarget)}, {FALSE})

NextPage ==
    \/ InitAll
    \/ LoadGsap
    \/ LoadScrollTrigger
    \/ AnimTimerFire
    \/ \E y \in {0, Threshold + 1} : Scroll(y)
    \/ ScrollEvent
    \/ AnimationFrame
    \/ ButtonClick
    \/ ToggleMenuCall
    \/ \E l \in 1..MaxLinks : LinkClick(l)
    \/ CloseBtnClick
    \/ HideTimerFire

SpecPage == InitPage /\ [][NextPage]_vars

\* ===================================================================== claims

NavTransparent == TransparentClasses \subseteq navClasses /\ navClasses \cap PillClasses = {}

NavPill == PillClasses \subseteq navClasses /\ navClasses \cap TransparentClasses = {}

\* updateNav was the last thing to run: its run inside initNavigation, or an
\* animation-frame run.
UpdateNavJustRan ==
    \/ lastOp = "updateNav"
    \/ lastOp = "initAll" /\ "scroll" \in listeners

\* C1: right after every run of updateNav (the run at initialization and each
\* animation-frame run), the navbar carries the transparent class set and no
\* pill class when the scroll offset is <= 50, and the pill class set and no
\* transparent class when it is > 50.
C1_NavClassesMatchOffset ==
    UpdateNavJustRan =>
        IF pageYOffset <= Threshold THEN NavTransparent ELSE NavPill

\* C1 witness: a frame run of updateNav at offset 51 has put the bar in pill mode.
C1_Witness ==
    /\ lastOp = "updateNav"
    /\ pageYOffset = Threshold + 1
    /\ isScrolled
    /\ NavPill

\* C2: at most one accordion content panel has a non-zero height, in every
\* state reached by calls of toggleAccordion (from the page or from the
\* auto-open timer) from all panels collapsed.
C2_AtMostOneExpanded ==
    Cardinality({i \in Items : Expanded(height[i])}) <= 1

\* C2 witness: a panel other than the first is expanded after the auto-open
\* timer has run, by a call that found another panel expanded.
C2_Witness ==
    /\ accTimer = "fired"
    /\ lastOp = "toggleAccordion"
    /\ switchedFrom # 0
    /\ \E i \in Items \ {FirstItem} : Expanded(height[i])

CloseOnlyOps == {"linkClick", "closeBtnClick"}

CloseOps == CloseOnlyOps \cup {"buttonClick", "toggleMenu"}

\* C3 (as claimed): after the menu was opened and then closed, the body's
\* position, top, left, right and width equal their values before the open,
\* and the window scroll offset is the one recorded at open time.
C3_RoundTripRestoresBody ==
    (lastOp \in CloseOps /\ closedFromOpen) =>
        /\ bodyStyle = preOpenBody
        /\ pageYOffset = scrollPos

ItemActive(i) == ItemActiveClasses \subseteq itemClasses[i]

ItemInactive(i) == itemClasses[i] \cap ItemActiveClasses = {}

IconActive(i) == i \in hasIcon => IconActiveClasses \subseteq iconClasses[i]

IconInactive(i) == iconClasses[i] \cap IconActiveClasses = {}

ToggleJustRan == lastOp \in {"toggleAccordion", "accTimer"}

\* C4: when toggleAccordion is called on an item B that has a content panel
\* while another panel A is expanded, then right after that call A's content
\* height is '0px', A's icon and border active styling are removed, and B's
\* content height is its scroll height + 'px' with the active styling applied.
C4_SwitchClosesOther ==
    (ToggleJustRan /\ switchedFrom # 0 /\ lastItem \in hasContent) =>
        /\ height[switchedFrom] = ZeroPx
        /\ ItemInactive(switchedFrom)
        /\ IconInactive(switchedFrom)
        /\ height[lastItem] = HeightPx(lastHeight)
        /\ ItemActive(lastItem)
        /\ IconActive(lastItem)

\* C4 witness: a call on item 2, measuring a non-zero height, found item 1
\* expanded.
C4_Witness ==
    /\ ToggleJustRan
    /\ switchedFrom = FirstItem
    /\ lastItem = 2
    /\ lastItem \in hasContent
    /\ lastItem \in hasIcon
    /\ FirstItem \in hasIcon
    /\ lastHeight > 0

\* C5 (as claimed): a call of toggleAccordion on the item the previous call
\* expanded closes it: content height '0px', active icon and border styling
\* removed, for every natural content height including 0.
C5_SecondToggleCloses ==
    (ToggleJustRan /\ reToggled) =>
        /\ height[lastItem] = ZeroPx
        /\ ItemInactive(lastItem)
        /\ IconInactive(lastItem)

\* The value of a decimal digit token.
DigitValue(c) ==
    CASE c = "0" -> 0 [] c = "1" -> 1 [] c = "2" -> 2 [] c = "3" -> 3 [] c = "4" -> 4
      [] c = "5" -> 5 [] c = "6" -> 6 [] c = "7" -> 7 [] c = "8" -> 8 [] c = "9" -> 9

RECURSIVE DigitsValue(_)
\* The natural number a sequence of digit tokens writes.
DigitsValue(ds) ==
    IF ds = << >> THEN 0
    ELSE 10 * DigitsValue(SubSeq(ds, 1, Len(ds) - 1)) + DigitValue(ds[Len(ds)])

\* A length in px: a number followed by 'px'.
IsPxLength(v) == Len(v) > 2 /\ SubSeq(v, Len(v) - 1, Len(v)) = PxSuffix

\* 100 times the number a px length with at most two decimals writes.
PxHundredths(v) ==
    LET num == SubSeq(v, 1, Len(v) - 2)
        dots == {k \in 1..Len(num) : num[k] = "."}
    IN  IF dots = {} THEN 100 * DigitsValue(num)
        ELSE LET k == CHOOSE d \in dots : TRUE
                 frac == SubSeq(num, k + 1, Len(num))
             IN  100 * DigitsValue(SubSeq(num, 1, k - 1))
                   + (IF Len(frac) = 1 THEN 10 * DigitsValue(frac) ELSE DigitsValue(frac))

\* The --vh property holds 1% of the window's inner height, in px.
VhIsOnePercent == IsPxLength(vh) /\ PxHundredths(vh) = innerHeight

NavRequired == {"navbar", "main-header"}

MenuRequired == {"menu-btn", "main-header", "mobile-menu"}

\* The navigation feature left no trace: no listener, no class change, no state.
NavUntouched ==
    /\ "scroll" \notin listeners
    /\ navClasses = NavbarMarkup
    /\ ~isScrolled /\ ~ticking /\ rafPending = 0

\* The menu feature left no trace: no listener, no global, no DOM change.
MenuUntouched ==
    /\ listeners \cap {"menu-btn:click", "menu-link:click", "close-btn:click"} = {}
    /\ "toggleMenu" \notin globals
    /\ ~isOpen /\ hideTimers = 0
    /\ menuDisplay = Empty /\ menuClasses = MenuMarkupClasses
    /\ headerStyle = NoHeaderStyle /\ bodyStyle = NoBodyStyle

\* The features that need no element are set up, and each of navigation and
\* menu is set up when its elements exist.
FeaturesInitialized ==
    /\ "toggleAccordion" \in globals /\ accTimer # "unset"
    /\ {"resize", "orientationchange"} \subseteq listeners /\ VhIsOnePercent
    /\ animTimer # "unset"
    /\ NavRequired \subseteq elems => "scroll" \in listeners
    /\ MenuRequired \subseteq elems =>
         /\ "menu-btn:click" \in listeners /\ "toggleMenu" \in globals
         /\ nLinks > 0 => "menu-link:click" \in listeners
         /\ closeBtn = "other" => "close-btn:click" \in listeners

\* C6: whichever required elements are missing, initAll completes without
\* throwing; a feature with a missing element registers no listener,
\* publishes no global and changes no DOM state, then or later; every other
\* feature is initialized.
C6_FaultIsolation ==
    initialized =>
        /\ ~threw
        /\ FeaturesInitialized
        /\ ~(NavRequired \subseteq elems) => NavUntouched
        /\ ~(MenuRequired \subseteq elems) => MenuUntouched

\* C6 witness: with menu-btn missing the menu is untouched while the
\* navigation has switched to pill mode in an animation frame.
C6_Witness ==
    /\ initialized
    /\ elems = RequiredElements \ {"menu-btn"}
    /\ lastOp = "updateNav"
    /\ isScrolled

\* C7: initAnimations runs at most once, only when the 100 ms timer fires and
\* only if gsap and ScrollTrigger were both defined at that instant; when one
\* was undefined it never runs, even after the library has become available;
\* the other features are initialized whatever the outcome.
C7_AnimationsOnceAtTimer ==
    /\ animRuns <= 1
    /\ animRuns = 1 => (animTimer = "fired" /\ libsAtFire)
    /\ (animTimer = "fired" /\ ~libsAtFire) => (animRuns = 0 /\ ~pluginRegistered)
    /\ animTimer = "fired" => (~threw /\ FeaturesInitialized)

\* C7 witness: the timer fired before the libraries were there, both are
\* defined now, and initAnimations has not run.
C7_Witness ==
    /\ animTimer = "fired"
    /\ ~libsAtFire
    /\ gsapDefined /\ stDefined
    /\ animRuns = 0

BodyUnlocked == bodyStyle = NoBodyStyle

\* C8: a click on an in-menu anchor link or on the internal close button
\* while the menu is open leaves it closed (isOpen false, header visible,
\* body scroll unlocked), and the panel's display is 'none' once a 300 ms
\* timer of closeMenu has fired.
C8_CloseControls ==
    /\ (lastOp \in CloseOnlyOps /\ closedFromOpen) =>
          /\ ~isOpen
          /\ headerStyle = [opacity |-> Lit("1"), pointerEvents |-> Empty]
          /\ BodyUnlocked
          /\ hideTimers > 0
    /\ lastOp = "hideTimer" => menuDisplay = Lit("none")

\* C8 witness: the close button closed a menu that was opened at offset 51
\* on a page whose body had inline styles.
C8_Witness ==
    /\ lastOp = "closeBtnClick"
    /\ closedFromOpen
    /\ scrollPos = Threshold + 1
    /\ preOpenBody = InlineBodyStyle

\* C9: after initialization and after every resize or orientationchange
\* event handled since, --vh on the document root is window.innerHeight * 0.01
\* with the unit px.
C9_VhFollowsInnerHeight ==
    (initialized /\ lastOp \in {"initAll", "resize", "orientationchange"}) => VhIsOnePercent

\* C9 witness: an orientationchange event was handled at an inner height
\* that is not a whole number of pixels per percent and differs from the one
\* at load.
C9_Witness ==
    /\ initialized
    /\ lastOp = "orientationchange"
    /\ innerHeight = BaseInnerHeight + InnerHeightStep
    /\ VhIsOnePercent

\* C10 (as claimed, for a first item with a content panel of non-zero natural
\* height): once the auto-open timer has fired, the first item is expanded
\* with the active styling and is the only expanded panel, whatever calls of
\* toggleAccordion came before.
C10_FirstOpenAfterTimer ==
    (lastOp = "accTimer" /\ FirstItem \in hasContent /\ lastHeight > 0) =>
        /\ Expanded(height[FirstItem])
        /\ ItemActive(FirstItem)
        /\ \A i \in Items \ {FirstItem} : ~Expanded(height[i])

\* C11: a run of updateNav at an offset on the same side of 50 as the
\* previous run takes neither branch, changes no navbar class and leaves
\* isScrolled as it was; a run on the other side (a crossing it observes)
\* performs the class swap, once.
C11_NavIdempotent ==
    lastOp = "updateNav" =>
        /\ navSameSide => ~navSwapped
        /\ ~navSameSide => (navSwapped /\ isScrolled = navLastHigh)

\* C11 witness: a second run on the high side, with nothing swapped.
C11_Witness ==
    /\ lastOp = "updateNav"
    /\ navSameSide
    /\ navLastHigh
    /\ isScrolled
    /\ ~navSwapped

\* C13: at most one updateNav callback is pending in requestAnimationFrame,
\* and ticking is true exactly when one is pending.
C13_OneFramePending ==
    /\ rafPending <= 1
    /\ ticking <=> rafPending = 1

\* C13 witness: a scroll event arrived while a callback was pending and
\* requested no second one.
C13_Witness ==
    /\ lastOp = "scrollEvent"
    /\ navCoalesced
    /\ ticking
    /\ rafPending = 1

NavMatchesOffset == IF pageYOffset <= Threshold THEN NavTransparent /\ ~isScrolled
                    ELSE NavPill /\ isScrolled

\* The navigation is set up and no scroll event or frame callback is outstanding.
NavSettled ==
    /\ initialized /\ NavRequired \subseteq elems
    /\ "scroll" \notin pendingEvents /\ rafPending = 0

\* C14: on a page with the navigation elements, once scrolling stops at an
\* offset the navbar mode (isScrolled and the class set) eventually matches
\* that offset and stays so, whatever scroll events were coalesced before;
\* and whenever no scroll event or frame callback is outstanding the mode
\* matches the current offset (no event was lost).
C14_NavEventuallyMatches ==
    /\ \A y \in ScrollOffsets :
          <>[](pageYOffset = y /\ NavRequired \subseteq elems) => <>[]NavMatchesOffset
    /\ [](NavSettled => NavMatchesOffset)

\* C14 witness: after a coalesced scroll event the pending frame has run,
\* nothing is queued, and the bar is in pill mode at an offset > 50.
C14_Witness ==
    /\ lastOp = "updateNav"
    /\ navCoalesced
    /\ pendingEvents = {}
    /\ rafPending = 0
    /\ pageYOffset > Threshold
    /\ NavMatchesOffset

\* ------------------------------------------------------------ claims C15-C18

\* The body's inline style scroll-locks the page at the saved offset:
\* position 'fixed' and top '-<scrollPos>px'.
BodyLockedAtSaved ==
    /\ bodyStyle.position = Lit("fixed")
    /\ IsPxLength(bodyStyle.top)
    /\ Head(bodyStyle.top) = "-"
    /\ Len(bodyStyle.top) > 3
    /\ LET ds == SubSeq(bodyStyle.top, 2, Len(bodyStyle.top) - 2)
       IN  /\ \A i \in 1..Len(ds) : ds[i] \in {"0", "1", "2", "3", "4", "5", "6", "7", "8", "9"}
           /\ DigitsValue(ds) = scrollPos

\* The header's inline style hides it.
HeaderHidden == headerStyle.opacity = Lit("0") /\ headerStyle.pointerEvents = Lit("none")

\* C15: in every reachable state the body is scroll-locked (position 'fixed',
\* top minus the saved offset) exactly when isOpen, and the header is hidden
\* (opacity '0', pointer events 'none') exactly when isOpen; after a button
\* click or a window.toggleMenu call isOpen is the negation of what it was,
\* whichever of the two ran before.
C15_MenuLockInvariant ==
    /\ isOpen <=> BodyLockedAtSaved
    /\ isOpen <=> HeaderHidden
    /\ bodyStyle.position = Lit("fixed") => isOpen
    /\ lastOp \in {"buttonClick", "toggleMenu"} => isOpen = ~wasOpen

\* C15 witness: the menu was opened by the button at an offset above 50 and
\* has just been closed by window.toggleMenu.
C15_Witness ==
    /\ lastOp = "toggleMenu" /\ wasOpen /\ ~isOpen
    /\ openedBy = "buttonClick"
    /\ scrollPos > Threshold
    /\ ~HeaderHidden /\ bodyStyle.position = Empty

\* C16: whenever isOpen is true the panel's inline display is 'flex', also
\* after a hide timer of an earlier close fires.
C16_OpenPanelIsFlex == isOpen => menuDisplay = Lit("flex")

\* C18: a link click or close-button click that calls closeMenu while isOpen
\* is false changes neither the scroll position, nor the body's inline
\* style, nor the header's opacity.
C18_CloseWhileClosedIsNoOp ==
    (lastOp \in CloseOnlyOps /\ ~wasOpen) => closeEffect = {}

\* The content panel of item i has a non-zero inline height: '<n>px' with n > 0.
PanelHasHeight(i) ==
    /\ IsPxLength(height[i])
    /\ LET ds == SubSeq(height[i], 1, Len(height[i]) - 2)
       IN  /\ \A k \in 1..Len(ds) : ds[k] \in {"0", "1", "2", "3", "4", "5", "6", "7", "8", "9"}
           /\ DigitsValue(ds) > 0

\* Item i carries the active styling on the item and, where it has one, on its icon.
StyledActive(i) == ItemActive(i) /\ (i \in hasIcon => IconActive(i))

\* Item i carries none of the active styling.
StyledInactive(i) == ItemInactive(i) /\ (i \in hasIcon => IconInactive(i))

\* C17: in every state reachable by toggleAccordion calls an item carries the
\* active styling exactly when its content panel has non-zero height, an
\* item whose panel has no height carries none of it, and at most one item
\* carries the active styling.
C17_StylingMatchesHeight ==
    /\ \A i \in Items : (StyledActive(i) <=> PanelHasHeight(i))
    /\ \A i \in Items : (~PanelHasHeight(i) => StyledInactive(i))
    /\ Cardinality({i \in Items : ItemActive(i)}) <= 1

\* ------------------------------------------------------------------ claim C12

\* The number the data-target attribute writes (0 without one).
TargetNumber ==
    IF dataTarget = NullAttr \/ dataTarget = Empty THEN 0 ELSE DigitsValue(dataTarget)

\* The number the counter's text writes.
ShownNumber == DigitsValue(counterText)

\* n is x / ValueScale rounded to the nearest integer, halves up.
IsRounded(n, x) ==
    /\ 2 * ValueScale * n <= 2 * x + ValueScale
    /\ 2 * x + ValueScale < 2 * ValueScale * (n + 1)

\* C12: for a counter whose data-target is N, the animated value starts at 0
\* and stays within 0..N; after each tick the text is the decimal numeral of
\* the rounded value and is not below what it showed before; when the tween
\* completes the text is exactly N; and the tween is played exactly once if
\* the element's top has reached the 85% line since the tween exists, never
\* otherwise and never again on later crossings.
C12_CounterAnimation ==
    /\ tween # "none" => counterTarget = TargetNumber
    /\ (tween \in {"paused", "playing"} /\ ~ticked) => (objValue = 0 /\ ShownNumber = 0)
    /\ objValue \in 0 .. (ValueScale * TargetNumber)
    /\ ticked =>
          /\ IsRounded(ShownNumber, objValue)
          /\ counterText = NatToStr(ShownNumber)
          /\ prevShown <= ShownNumber
    /\ tween = "done" => (counterText = NatToStr(TargetNumber) /\ objValue = ValueScale * TargetNumber)
    /\ counterStarts = (IF counterEnters >= 1 THEN 1 ELSE 0)
    /\ tween \in {"playing", "done"} <=> counterStarts = 1

\* C12 witness: a counter with a two-digit target has completed, its last
\* tick raised the text to the target, and the element has entered the line
\* again after the tween was played.
C12_Witness ==
    /\ tween = "done" /\ TargetNumber >= 10 /\ ShownNumber = TargetNumber
    /\ prevShown < ShownNumber
    /\ counterEnters >= 2 /\ counterStarts = 1

=============================================================================
